---- MODULE Spec2Model ----
(***************************************************************************)
(* Model of the dab_demo path resolver (path_manager.PathResolver), the    *)
(* YAML reader foo.bar.parse_bar, and the configuration-file tests of      *)
(* common_framework/tests/test_config.py.                                  *)
(*                                                                         *)
(* A path is the sequence of its components below "/"; "/" itself is <<>>. *)
(***************************************************************************)
EXTENDS Integers, Sequences, FiniteSets, TLC

(* ------------------------------ bounds --------------------------------- *)
MaxRepoDepth == 1
NumThreads == 2

(* --------------------------- pathlib.Path ------------------------------ *)
\* Path.parent: the parent of the root is the root itself.
Parent(p) == IF Len(p) = 0 THEN p ELSE SubSeq(p, 1, Len(p) - 1)

\* Path.__truediv__ with a relative operand given by its components
\* ('config/bar.yml' is <<"config", "bar.yml">>).
Join(p, rel) == p \o rel

(* ------------------------------ layouts -------------------------------- *)
RepoDirs == {"repo"}
Projects == {"dab_demo", "proj"}
Repos == UNION {[1..n -> RepoDirs] : n \in 0..MaxRepoDepth}

\* __file__ of path_manager.py in the layout <repo>/<project>/src/<module>.
ModuleFiles == {r \o <<p, "src", "path_manager.py">> : r \in Repos, p \in Projects}

(* ------------------------- values that are not paths ------------------- *)
None == 0
Unset == <<"<unset>">>
NoCall == <<"<no call>">>
AttributeError(name) == <<"<AttributeError>", name>>
IsError(v) == Len(v) = 2 /\ v[1] = "<AttributeError>"

Threads == 1..NumThreads
MainThread == CHOOSE t \in Threads : \A u \in Threads : t <= u

(* --------------------------- file contents ----------------------------- *)
Missing == "<ENOENT>"
Dir == "<DIR>"
EmptyText == ""
CommentText == "# nothing here"
ZooText == "bar_test: {foo_test: zoo}"
MooText == "bar_test: {foo_test: moo}"
FlatText == "bar_test: zoo"
ListText == "- zoo"
BrokenYamlText == "bar_test: {foo_test: zoo"

LoremText == "[\"Lorem\", \"Ipsum\", \"Dolor\", \"Sit\", \"Amet\"]"
ShortText == "[\"Lorem\"]"
NumbersText == "[1, 2, 3, 4, 5]"
ObjectText == "{}"
BrokenJsonText == "["

BarTexts == {EmptyText, CommentText, ZooText, MooText, FlatText, ListText, BrokenYamlText}
DataTexts == {EmptyText, LoremText, ShortText, NumbersText, ObjectText, BrokenJsonText}

(* ---------------------------- parsed values ---------------------------- *)
Null == [tag |-> "null"]
Str(s) == [tag |-> "str", s |-> s]
Num(n) == [tag |-> "int", n |-> n]
Map(m) == [tag |-> "map", m |-> m]
List(items) == [tag |-> "list", items |-> items]
YAMLError == [tag |-> "YAMLError"]
JSONDecodeError == [tag |-> "JSONDecodeError"]

\* yaml.safe_load on the texts above.
safe_load(text) ==
  CASE text = EmptyText -> Null
    [] text = CommentText -> Null
    [] text = ZooText -> Map([bar_test |-> Map([foo_test |-> Str("zoo")])])
    [] text = MooText -> Map([bar_test |-> Map([foo_test |-> Str("moo")])])
    [] text = FlatText -> Map([bar_test |-> Str("zoo")])
    [] text = ListText -> List(<<Str("zoo")>>)
    [] OTHER -> YAMLError

\* json.load on the texts above.
json_load(text) ==
  CASE text = LoremText ->
         List(<<Str("Lorem"), Str("Ipsum"), Str("Dolor"), Str("Sit"), Str("Amet")>>)
    [] text = ShortText -> List(<<Str("Lorem")>>)
    [] text = NumbersText -> List(<<Num(1), Num(2), Num(3), Num(4), Num(5)>>)
    [] text = ObjectText -> Map(<<>>)
    [] OTHER -> JSONDecodeError

VARIABLES
  modfile,   \* __file__ of path_manager.py
  inst,      \* PathResolver._instance (None or an object id)
  root,      \* PathResolver._root (Unset until line 16 runs)
  nextId,    \* id of the next object super().__new__ allocates
  pc,        \* per thread: where it is
  caller,    \* per thread: who called PathResolver(): "user" or "parse_bar"
  ret,       \* per thread: the resolver its last PathResolver() returned
  rep,       \* per thread: the _root that resolver reported when returned
  last,      \* per attribute name: result of the latest access
  out,       \* per thread: outcome of its latest parse_bar()
  fs,        \* the filesystem: path -> Missing, Dir or a text
  tnext,     \* pytest: index of the next test to run
  verdict,   \* pytest: test name -> "notrun", "passed", "failed"
  elog       \* pytest: the assert checks evaluated so far, in order

vars == <<modfile, inst, root, nextId, pc, caller, ret, rep, last, out, fs,
          tnext, verdict, elog>>

resolverVars == <<inst, root, nextId>>
threadVars == <<pc, caller, ret, rep>>
pytestVars == <<tnext, verdict, elog>>

(* ------------------------- path_manager.py ----------------------------- *)
\* Variant: only one level above the module file.
ComputeRootOneLevel(f) == Parent(f)

\* Path(__file__).parent.parent
ComputeRoot(f) == Parent(Parent(f))

\* self._root: the instance has no attribute of its own, the class one is read.
RootOf(i) == IF root = Unset THEN AttributeError("_root") ELSE root

\* The properties of the class; any other name is an AttributeError.
AttributeNames == {"resources", "tests", "config", "common_framework"}

\* Variant: common_framework looked up inside the project, not beside it.
PropertyChildFramework(name, i) ==
  LET r == RootOf(i) IN
  CASE name = "resources" -> IF IsError(r) THEN r ELSE Join(r, <<"resources">>)
    [] name = "tests" -> IF IsError(r) THEN r ELSE Join(r, <<"tests">>)
    [] name = "common_framework" ->
         IF IsError(r) THEN r ELSE Join(r, <<"common_framework">>)
    [] OTHER -> AttributeError(name)

Property(name, i) ==
  LET r == RootOf(i) IN
  CASE name = "resources" -> IF IsError(r) THEN r ELSE Join(r, <<"resources">>)
    [] name = "tests" -> IF IsError(r) THEN r ELSE Join(r, <<"tests">>)
    [] name = "common_framework" ->
         IF IsError(r) THEN r ELSE Join(Parent(r), <<"common_framework">>)
    [] OTHER -> AttributeError(name)

\* Variant: no test of cls._instance, every construction allocates.
NewTestNoGuard(t) ==
  /\ pc[t] = "new_test"
  /\ pc' = [pc EXCEPT ![t] = "new_alloc"]
  /\ UNCHANGED <<modfile, resolverVars, caller, ret, rep, last, out, fs, pytestVars>>

\* line 14: if not cls._instance
NewTest(t) ==
  /\ pc[t] = "new_test"
  /\ pc' = [pc EXCEPT ![t] = IF inst = None THEN "new_alloc" ELSE "new_return"]
  /\ UNCHANGED <<modfile, resolverVars, caller, ret, rep, last, out, fs, pytestVars>>

\* Variant: line 16 is missing, the root is never assigned.
NewAllocSkipsRoot(t) ==
  /\ pc[t] = "new_alloc"
  /\ inst' = nextId
  /\ nextId' = nextId + 1
  /\ pc' = [pc EXCEPT ![t] = "new_return"]
  /\ UNCHANGED <<modfile, root, caller, ret, rep, last, out, fs, pytestVars>>

\* line 15: cls._instance = super().__new__(cls)
NewAlloc(t) ==
  /\ pc[t] = "new_alloc"
  /\ inst' = nextId
  /\ nextId' = nextId + 1
  /\ pc' = [pc EXCEPT ![t] = "new_root"]
  /\ UNCHANGED <<modfile, root, caller, ret, rep, last, out, fs, pytestVars>>

\* Variant: the root is derived from the cached root when there is one
\* (cls._root = cls._root.parent), so that assigning twice is not idempotent.
NewRootNotIdempotent(t) ==
  /\ pc[t] = "new_root"
  /\ root' = IF root = Unset THEN ComputeRoot(modfile) ELSE Parent(root)
  /\ pc' = [pc EXCEPT ![t] = "new_return"]
  /\ UNCHANGED <<modfile, inst, nextId, caller, ret, rep, last, out, fs, pytestVars>>

\* line 16: cls._root = Path(__file__).parent.parent
NewRoot(t) ==
  /\ pc[t] = "new_root"
  /\ root' = ComputeRoot(modfile)
  /\ pc' = [pc EXCEPT ![t] = "new_return"]
  /\ UNCHANGED <<modfile, inst, nextId, caller, ret, rep, last, out, fs, pytestVars>>

\* line 17: return cls._instance
NewReturn(t) ==
  /\ pc[t] = "new_return"
  /\ ret' = [ret EXCEPT ![t] = inst]
  /\ rep' = [rep EXCEPT ![t] = RootOf(inst)]
  /\ pc' = [pc EXCEPT ![t] = IF caller[t] = "parse_bar" THEN "pb_body" ELSE "idle"]
  /\ UNCHANGED <<modfile, resolverVars, caller, last, out, fs, pytestVars>>

\* A caller evaluates PathResolver().
Construct(t) ==
  /\ pc[t] = "idle"
  /\ pc' = [pc EXCEPT ![t] = "new_test"]
  /\ caller' = [caller EXCEPT ![t] = "user"]
  /\ UNCHANGED <<modfile, resolverVars, ret, rep, last, out, fs, pytestVars>>

\* Variant: the accessor creates the directory it names (mkdir(exist_ok=True)).
AccessMkdir(t, name) ==
  /\ pc[t] = "idle"
  /\ ret[t] # None
  /\ last' = [last EXCEPT ![name] = Property(name, ret[t])]
  /\ fs' = [p \in DOMAIN fs |-> IF p = Property(name, ret[t]) THEN Dir ELSE fs[p]]
  /\ UNCHANGED <<modfile, resolverVars, threadVars, out, pytestVars>>

\* A caller reads attribute `name` of the resolver it holds.
Access(t, name) ==
  /\ pc[t] = "idle"
  /\ ret[t] # None
  /\ last' = [last EXCEPT ![name] = Property(name, ret[t])]
  /\ UNCHANGED <<modfile, resolverVars, threadVars, out, fs, pytestVars>>

(* ------------------------------ foo/bar.py ----------------------------- *)
NoOutcome ==
  [status |-> "none", err |-> "", at |-> "", loaded |-> FALSE, path |-> NoCall, val |-> Null]
Raised(e, where, ld, p) ==
  [status |-> "raised", err |-> e, at |-> where, loaded |-> ld, path |-> p, val |-> Null]
Returned(p, v) ==
  [status |-> "returned", err |-> "", at |-> "", loaded |-> TRUE, path |-> p, val |-> v]

Read(p) == IF p \in DOMAIN fs THEN fs[p] ELSE Missing

\* line 5: paths = PathResolver()
ParseBarCall(t) ==
  /\ pc[t] = "idle"
  /\ pc' = [pc EXCEPT ![t] = "new_test"]
  /\ caller' = [caller EXCEPT ![t] = "parse_bar"]
  /\ out' = [out EXCEPT ![t] = NoOutcome]
  /\ UNCHANGED <<modfile, resolverVars, ret, rep, last, fs, pytestVars>>

\* Variant: errors are swallowed and an empty mapping is returned instead.
ParseBarBodyFallback(t) ==
  /\ pc[t] = "pb_body"
  /\ LET cf == Property("common_framework", ret[t])
         config_path == Join(cf, <<"config", "bar.yml">>)
         text == Read(config_path)
     IN out' = [out EXCEPT ![t] =
          IF IsError(cf) THEN Raised("AttributeError", "path", FALSE, NoCall)
          ELSE IF text = Missing THEN Returned(config_path, Map(<<>>))
          ELSE IF safe_load(text) = YAMLError THEN Returned(config_path, Map(<<>>))
          ELSE Returned(config_path, safe_load(text))]
  /\ pc' = [pc EXCEPT ![t] = "idle"]
  /\ caller' = [caller EXCEPT ![t] = "user"]
  /\ UNCHANGED <<modfile, resolverVars, ret, rep, last, fs, pytestVars>>

\* lines 6-9: compose the path, open it, safe_load it, return the data.
ParseBarBody(t) ==
  /\ pc[t] = "pb_body"
  /\ LET cf == Property("common_framework", ret[t])
         config_path == Join(cf, <<"config", "bar.yml">>)
         text == Read(config_path)
     IN out' = [out EXCEPT ![t] =
          IF IsError(cf) THEN Raised("AttributeError", "path", FALSE, NoCall)
          ELSE IF text = Missing THEN Raised("FileNotFoundError", "open", FALSE, config_path)
          ELSE IF safe_load(text) = YAMLError THEN Raised("YAMLError", "load", TRUE, config_path)
          ELSE Returned(config_path, safe_load(text))]
  /\ pc' = [pc EXCEPT ![t] = "idle"]
  /\ caller' = [caller EXCEPT ![t] = "user"]
  /\ UNCHANGED <<modfile, resolverVars, ret, rep, last, fs, pytestVars>>

(* ------------------- the files the programs look at ------------------- *)
\* The layout the module file was placed in.
LayoutRepo == SubSeq(modfile, 1, Len(modfile) - 3)
LayoutProject == modfile[Len(modfile) - 2]

BarYml == LayoutRepo \o <<"common_framework", "config", "bar.yml">>
DataJson == LayoutRepo \o <<"common_framework", "config", "data.json">>
ProjectBarYml == LayoutRepo \o <<LayoutProject, "config", "bar.yml">>
ResourcesDir == LayoutRepo \o <<LayoutProject, "resources">>

FsPaths == {BarYml, DataJson, ProjectBarYml, ResourcesDir}

Allowed(p) ==
  IF p = BarYml THEN {Missing} \cup BarTexts
  ELSE IF p = DataJson THEN {Missing} \cup DataTexts
  ELSE IF p = ProjectBarYml THEN {Missing, ZooText, MooText}
  ELSE {Missing, Dir}

\* Something outside the program creates, rewrites or removes a file.
WriteFile(p, c) ==
  /\ fs[p] # c
  /\ fs' = [fs EXCEPT ![p] = c]
  /\ UNCHANGED <<modfile, resolverVars, threadVars, last, out, pytestVars>>

(* ------------------- common_framework/tests/test_config.py ------------- *)
\* __file__ of test_config.py, and the fixtures derived from it.
TestFile == LayoutRepo \o <<"common_framework", "tests", "test_config.py">>
config_dir == Join(Parent(Parent(TestFile)), <<"config">>)
bar_yml_path == Join(config_dir, <<"bar.yml">>)
data_json_path == Join(config_dir, <<"data.json">>)

\* The result of one test function: how it ended and the asserts it evaluated.
Result(v, checks) == [v |-> v, checks |-> checks]
Check(name, ok) == [check |-> name, ok |-> ok]
Passed(checks) == Result("passed", checks)
Failed(checks) == Result("failed: assert", checks)

\* Path.stat().st_size of an existing file.
st_size(text) == Len(text)

test_bar_yml_file_exists ==
  LET ok == Read(bar_yml_path) # Missing
      cs == <<Check("bar.exists", ok)>>
  IN IF ok THEN Passed(cs) ELSE Failed(cs)

test_bar_yml_is_valid_yaml ==
  LET text == Read(bar_yml_path) IN
  IF text = Missing THEN Result("failed: FileNotFoundError", <<>>)
  ELSE IF safe_load(text) = YAMLError THEN Result("failed: pytest.fail", <<>>)
  ELSE Passed(<<>>)

test_bar_yml_structure ==
  LET text == Read(bar_yml_path)
      config == safe_load(text)
      c1 == Check("bar.root_is_dict", config.tag = "map")
      c2 == Check("bar.has_bar_test", "bar_test" \in DOMAIN config.m)
      c3 == Check("bar.bar_test_is_dict", config.m["bar_test"].tag = "map")
  IN
  IF text = Missing THEN Result("failed: FileNotFoundError", <<>>)
  ELSE IF config = YAMLError THEN Result("failed: YAMLError", <<>>)
  ELSE IF ~c1.ok THEN Failed(<<c1>>)
  ELSE IF ~c2.ok THEN Failed(<<c1, c2>>)
  ELSE IF ~c3.ok THEN Failed(<<c1, c2, c3>>)
  ELSE Passed(<<c1, c2, c3>>)

test_bar_yml_content ==
  LET text == Read(bar_yml_path)
      config == safe_load(text)
      bt == config.m["bar_test"]
      \* 'foo_test' in config['bar_test']: key test on a dict, substring test
      \* on a str (no text above holds foo_test as a substring)
      c1 == Check("bar.has_foo_test", bt.tag = "map" /\ "foo_test" \in DOMAIN bt.m)
      c2 == Check("bar.foo_test_is_zoo", bt.m["foo_test"] = Str("zoo"))
  IN
  IF text = Missing THEN Result("failed: FileNotFoundError", <<>>)
  ELSE IF config = YAMLError THEN Result("failed: YAMLError", <<>>)
  ELSE IF config.tag # "map" THEN Result("failed: TypeError", <<>>)
  ELSE IF "bar_test" \notin DOMAIN config.m THEN Result("failed: KeyError", <<>>)
  ELSE IF bt.tag \notin {"map", "str", "list"} THEN Result("failed: TypeError", <<>>)
  ELSE IF ~c1.ok THEN Failed(<<c1>>)
  ELSE IF ~c2.ok THEN Failed(<<c1, c2>>)
  ELSE Passed(<<c1, c2>>)

test_bar_yml_file_not_empty ==
  LET text == Read(bar_yml_path)
      c1 == Check("bar.not_empty", st_size(text) > 0)
  IN
  IF text = Missing THEN Result("failed: FileNotFoundError", <<>>)
  ELSE IF c1.ok THEN Passed(<<c1>>) ELSE Failed(<<c1>>)

test_data_json_file_exists ==
  LET ok == Read(data_json_path) # Missing
      cs == <<Check("data.exists", ok)>>
  IN IF ok THEN Passed(cs) ELSE Failed(cs)

test_data_json_is_valid_json ==
  LET text == Read(data_json_path) IN
  IF text = Missing THEN Result("failed: FileNotFoundError", <<>>)
  ELSE IF json_load(text) = JSONDecodeError THEN Result("failed: pytest.fail", <<>>)
  ELSE Passed(<<>>)

test_data_json_structure ==
  LET text == Read(data_json_path)
      data == json_load(text)
      c1 == Check("data.root_is_list", data.tag = "list")
  IN
  IF text = Missing THEN Result("failed: FileNotFoundError", <<>>)
  ELSE IF data = JSONDecodeError THEN Result("failed: JSONDecodeError", <<>>)
  ELSE IF c1.ok THEN Passed(<<c1>>) ELSE Failed(<<c1>>)

expected_content ==
  List(<<Str("Lorem"), Str("Ipsum"), Str("Dolor"), Str("Sit"), Str("Amet")>>)

test_data_json_content ==
  LET text == Read(data_json_path)
      data == json_load(text)
      c1 == Check("data.is_expected", data = expected_content)
  IN
  IF text = Missing THEN Result("failed: FileNotFoundError", <<>>)
  ELSE IF data = JSONDecodeError THEN Result("failed: JSONDecodeError", <<>>)
  ELSE IF c1.ok THEN Passed(<<c1>>) ELSE Failed(<<c1>>)

\* len() of a list or of a dict
len(v) == IF v.tag = "list" THEN Len(v.items) ELSE Cardinality(DOMAIN v.m)

test_data_json_list_length ==
  LET text == Read(data_json_path)
      data == json_load(text)
      c1 == Check("data.has_5_items", len(data) = 5)
  IN
  IF text = Missing THEN Result("failed: FileNotFoundError", <<>>)
  ELSE IF data = JSONDecodeError THEN Result("failed: JSONDecodeError", <<>>)
  ELSE IF c1.ok THEN Passed(<<c1>>) ELSE Failed(<<c1>>)

\* for item in data: assert isinstance(item, str); the loop stops at the
\* first item that is not a str. Iterating a dict yields its keys (strs).
test_data_json_all_strings ==
  LET text == Read(data_json_path)
      data == json_load(text)
      items == IF data.tag = "list" THEN data.items ELSE <<>>
      bad == {i \in 1..Len(items) : items[i].tag # "str"}
      stop == IF bad = {} THEN Len(items)
              ELSE CHOOSE i \in bad : \A j \in bad : i <= j
      cs == [i \in 1..stop |-> Check("data.item_is_str", items[i].tag = "str")]
  IN
  IF text = Missing THEN Result("failed: FileNotFoundError", <<>>)
  ELSE IF data = JSONDecodeError THEN Result("failed: JSONDecodeError", <<>>)
  ELSE IF bad = {} THEN Passed(cs) ELSE Failed(cs)

test_data_json_file_not_empty ==
  LET text == Read(data_json_path)
      c1 == Check("data.not_empty", st_size(text) > 0)
  IN
  IF text = Missing THEN Result("failed: FileNotFoundError", <<>>)
  ELSE IF c1.ok THEN Passed(<<c1>>) ELSE Failed(<<c1>>)

\* Variant: the file-not-empty tests are defined first in their classes.
TestOrderNotEmptyFirst ==
  <<"bar.file_not_empty", "bar.file_exists", "bar.is_valid_yaml", "bar.structure",
    "bar.content",
    "data.file_not_empty", "data.file_exists", "data.is_valid_json", "data.structure",
    "data.content", "data.list_length", "data.all_strings">>

\* The test functions of TestBarYml and TestDataJson in the order the file
\* defines them, which is the order pytest runs them in.
TestOrder ==
  <<"bar.file_exists", "bar.is_valid_yaml", "bar.structure", "bar.content",
    "bar.file_not_empty",
    "data.file_exists", "data.is_valid_json", "data.structure", "data.content",
    "data.list_length", "data.all_strings", "data.file_not_empty">>

TestNames == {TestOrder[i] : i \in 1..Len(TestOrder)}

TestBody(name) ==
  CASE name = "bar.file_exists" -> test_bar_yml_file_exists
    [] name = "bar.is_valid_yaml" -> test_bar_yml_is_valid_yaml
    [] name = "bar.structure" -> test_bar_yml_structure
    [] name = "bar.content" -> test_bar_yml_content
    [] name = "bar.file_not_empty" -> test_bar_yml_file_not_empty
    [] name = "data.file_exists" -> test_data_json_file_exists
    [] name = "data.is_valid_json" -> test_data_json_is_valid_json
    [] name = "data.structure" -> test_data_json_structure
    [] name = "data.content" -> test_data_json_content
    [] name = "data.list_length" -> test_data_json_list_length
    [] name = "data.all_strings" -> test_data_json_all_strings
    [] OTHER -> test_data_json_file_not_empty

\* pytest runs the next test function; a failure does not stop the run.
RunTest ==
  /\ tnext <= Len(TestOrder)
  /\ LET name == TestOrder[tnext]
         r == TestBody(name)
     IN /\ verdict' = [verdict EXCEPT ![name] = r.v]
        /\ elog' = elog \o r.checks
  /\ tnext' = tnext + 1
  /\ UNCHANGED <<modfile, resolverVars, threadVars, last, out, fs>>

(* --------------------------- specifications ---------------------------- *)
InitProgram ==
  /\ modfile \in ModuleFiles
  /\ inst = None
  /\ root = Unset
  /\ nextId = 1
  /\ pc = [t \in Threads |-> "idle"]
  /\ caller = [t \in Threads |-> "user"]
  /\ ret = [t \in Threads |-> None]
  /\ rep = [t \in Threads |-> NoCall]
  /\ last = [n \in AttributeNames |-> NoCall]
  /\ out = [t \in Threads |-> NoOutcome]
  /\ tnext = 1
  /\ verdict = [n \in TestNames |-> "notrun"]
  /\ elog = <<>>

Init ==
  /\ InitProgram
  /\ fs = [p \in FsPaths |-> Missing]

\* One thread: constructions, attribute reads and parse_bar() calls, while
\* the files change under it.
Next ==
  \/ Construct(MainThread)
  \/ NewTest(MainThread)
  \/ NewAlloc(MainThread)
  \/ NewRoot(MainThread)
  \/ NewReturn(MainThread)
  \/ \E name \in AttributeNames : Access(MainThread, name)
  \/ ParseBarCall(MainThread)
  \/ ParseBarBody(MainThread)
  \/ \E p \in {BarYml, ProjectBarYml, ResourcesDir} : \E c \in Allowed(p) : WriteFile(p, c)

Spec == Init /\ [][Next]_vars

\* Several threads construct and read concurrently; a switch can happen
\* between any two lines of __new__.
NextThreads ==
  \E t \in Threads :
    \/ Construct(t)
    \/ NewTest(t)
    \/ NewAlloc(t)
    \/ NewRoot(t)
    \/ NewReturn(t)
    \/ \E name \in AttributeNames : Access(t, name)

SpecThreads == Init /\ [][NextThreads]_vars

\* A pytest run of test_config.py over each possible pair of config files.
InitTests ==
  /\ InitProgram
  /\ fs \in {f \in [FsPaths -> {Missing} \cup BarTexts \cup DataTexts] :
               /\ f[BarYml] \in Allowed(BarYml)
               /\ f[DataJson] \in Allowed(DataJson)
               /\ f[ProjectBarYml] = Missing
               /\ f[ResourcesDir] = Missing}

NextTests == RunTest

SpecTests == InitTests /\ [][NextTests]_vars

(* ------------------------------ properties ----------------------------- *)
\* What the layout says the directories are, written without path arithmetic.
ExpectedRoot == LayoutRepo \o <<LayoutProject>>
ExpectedProperty(name) ==
  IF name = "common_framework" THEN LayoutRepo \o <<"common_framework">>
  ELSE LayoutRepo \o <<LayoutProject, name>>

\* C1 (single thread): every resolver a construction returns reports a root,
\* the one cached on the class; a thread's next resolver reports the same
\* root as its previous one, any two threads' resolvers report the same
\* root, and the cached root never changes once set.
C1_SingletonRoot ==
  [][/\ root # Unset => root' = root
     /\ \A t \in Threads :
          ret'[t] # None =>
            /\ root' # Unset
            /\ rep'[t] = root'
            /\ rep[t] # NoCall => rep'[t] = rep[t]
     /\ \A t, u \in Threads :
          ret'[t] # None /\ ret'[u] # None => rep'[t] = rep'[u]]_vars

\* A second construction (the one parse_bar makes) has returned after an
\* earlier resolver was already in use.
C1_Witness ==
  /\ pc[MainThread] = "pb_body"
  /\ last["tests"] # NoCall
  /\ rep[MainThread] = root
  /\ root # Unset

\* C2 (single thread): in the layout <repo>/<project>/src/<module> the
\* cached root is <repo>/<project>, resources and tests are its children
\* and common_framework is <repo>/common_framework.
C2_Layout ==
  /\ root # Unset => root = ExpectedRoot
  /\ last["resources"] # NoCall => last["resources"] = LayoutRepo \o <<LayoutProject, "resources">>
  /\ last["tests"] # NoCall => last["tests"] = LayoutRepo \o <<LayoutProject, "tests">>
  /\ last["common_framework"] # NoCall =>
       /\ last["common_framework"] = LayoutRepo \o <<"common_framework">>
       /\ last["common_framework"] # ExpectedRoot \o <<"common_framework">>

C2_Witness ==
  /\ Len(LayoutRepo) > 0
  /\ last["resources"] # NoCall
  /\ last["tests"] # NoCall
  /\ last["common_framework"] # NoCall

\* C3: reading `config` on a constructed resolver yields ProjectRoot/"config".
C3_ConfigAccessor ==
  last["config"] \in {NoCall, ExpectedRoot \o <<"config">>}

\* C4 (single thread): the result of an accessor never differs from its
\* previous result, whatever happened in between (other accesses,
\* constructions, directories appearing or vanishing), and an access leaves
\* the cached instance, the cached root and the filesystem as they were.
C4_PureAccessors ==
  [][/\ \A name \in AttributeNames : last[name] # NoCall => last'[name] = last[name]
     /\ (\E t \in Threads : \E name \in AttributeNames : Access(t, name))
          => UNCHANGED <<inst, root, nextId, fs>>]_vars

\* resources was read and its directory still does not exist.
C4_Witness ==
  /\ last["resources"] = ExpectedProperty("resources")
  /\ last["common_framework"] # NoCall
  /\ fs[ResourcesDir] = Missing
  /\ fs[BarYml] # Missing

\* C5 (single thread): the body of parse_bar opens
\* <repo>/common_framework/config/bar.yml and no other file; when that file
\* holds bar_test: {foo_test: zoo} the call returns a mapping m with
\* m["bar_test"]["foo_test"] = "zoo", whatever the project's own
\* config/bar.yml holds.
C5_ParseBar ==
  [][\A t \in Threads :
       pc[t] = "pb_body" /\ pc'[t] = "idle" =>
         /\ out'[t].path = BarYml
         /\ fs[BarYml] = ZooText =>
              /\ out'[t].status = "returned"
              /\ out'[t].val.tag = "map"
              /\ "bar_test" \in DOMAIN out'[t].val.m
              /\ out'[t].val.m["bar_test"].tag = "map"
              /\ "foo_test" \in DOMAIN out'[t].val.m["bar_test"].m
              /\ out'[t].val.m["bar_test"].m["foo_test"] = Str("zoo")]_vars

C5_Witness ==
  /\ out[MainThread].status = "returned"
  /\ out[MainThread].val = Map([bar_test |-> Map([foo_test |-> Str("zoo")])])
  /\ fs[BarYml] = ZooText
  /\ fs[ProjectBarYml] = MooText
  /\ pc[MainThread] = "idle"

\* C6 (single thread): parse_bar on a missing bar.yml ends in
\* FileNotFoundError raised by open, before safe_load runs; on a malformed
\* bar.yml it ends in YAMLError; a call that raised returned nothing; and
\* the body leaves the cached instance and root as a successful call does:
\* set, and unchanged.
C6_ParseBarFailures ==
  [][\A t \in Threads :
       pc[t] = "pb_body" /\ pc'[t] = "idle" =>
         /\ fs[BarYml] = Missing =>
              /\ out'[t].status = "raised"
              /\ out'[t].err = "FileNotFoundError"
              /\ out'[t].at = "open"
              /\ ~out'[t].loaded
         /\ fs[BarYml] = BrokenYamlText =>
              /\ out'[t].status = "raised"
              /\ out'[t].err = "YAMLError"
              /\ out'[t].at = "load"
         /\ out'[t].status \in {"raised", "returned"}
         /\ out'[t].status = "raised" => out'[t].val = Null
         /\ inst' = inst /\ inst # None
         /\ root' = root /\ root = ExpectedRoot]_vars

C6_Witness ==
  /\ out[MainThread].status = "raised"
  /\ out[MainThread].err = "YAMLError"
  /\ fs[BarYml] = BrokenYamlText
  /\ inst # None
  /\ root = ExpectedRoot

\* The tests of a file that check the parsed content, and the asserts they make.
FileText(f) == IF f = "bar" THEN fs[BarYml] ELSE fs[DataJson]
NotEmptyTest(f) == IF f = "bar" THEN "bar.file_not_empty" ELSE "data.file_not_empty"
StructuralTests(f) ==
  IF f = "bar" THEN {"bar.structure", "bar.content"}
  ELSE {"data.structure", "data.content", "data.list_length", "data.all_strings"}
StructuralChecks(f) ==
  IF f = "bar"
  THEN {"bar.root_is_dict", "bar.has_bar_test", "bar.bar_test_is_dict",
        "bar.has_foo_test", "bar.foo_test_is_zoo"}
  ELSE {"data.root_is_list", "data.is_expected", "data.has_5_items", "data.item_is_str"}
Evaluated(cs) == {i \in 1..Len(elog) : elog[i].check \in cs}

\* C7 as stated: over an empty file no structural test runs before the
\* not-empty test has rejected the file, and no structural assert is
\* evaluated on the parsed content.
C7_NotEmptyFirst ==
  \A f \in {"bar", "data"} :
    FileText(f) = EmptyText =>
      /\ \A s \in StructuralTests(f) :
           verdict[s] # "notrun" => verdict[NotEmptyTest(f)] = "failed: assert"
      /\ Evaluated(StructuralChecks(f)) = {}

\* C7 amended (pytest run): over an empty file the not-empty test fails when
\* it runs, and it runs last: by then every structural test of that file has
\* run and none has passed. On an empty bar.yml the root-type assert was
\* evaluated on the parsed content (None) and failed; on an empty data.json
\* parsing fails, so no structural assert is evaluated.
C7_NotEmptyLast ==
  \A f \in {"bar", "data"} :
    FileText(f) = EmptyText =>
      /\ verdict[NotEmptyTest(f)] \in {"notrun", "failed: assert"}
      /\ verdict[NotEmptyTest(f)] # "notrun" =>
           \A s \in StructuralTests(f) : verdict[s] \notin {"notrun", "passed"}
      /\ f = "bar" /\ verdict["bar.structure"] # "notrun" =>
           \E i \in 1..Len(elog) : elog[i] = Check("bar.root_is_dict", FALSE)
      /\ f = "data" => Evaluated(StructuralChecks(f)) = {}

C7_Witness ==
  /\ fs[BarYml] = EmptyText
  /\ fs[DataJson] = EmptyText
  /\ verdict["bar.file_not_empty"] = "failed: assert"
  /\ verdict["data.file_not_empty"] = "failed: assert"

\* C8 (threads): whatever the interleaving of the lines of __new__, the
\* cached root is only ever the value one construction alone computes, and
\* once every thread has got a resolver back, each of them observes that
\* root through its resolver.
AllReturned == \A t \in Threads : ret[t] # None

C8_HarmlessRace ==
  /\ root \in {Unset, ExpectedRoot}
  /\ AllReturned => \A t \in Threads : RootOf(ret[t]) = ExpectedRoot

\* Two threads both passed the test of _instance and both allocated: they
\* hold different objects.
C8_Witness ==
  /\ AllReturned
  /\ \E t, u \in Threads : ret[t] # ret[u]
  /\ nextId > 2
  /\ root = ExpectedRoot

\* C9 (single thread): once assigned, the cached instance and the cached
\* root are never assigned again or reset, only one object is ever
\* allocated, and every later construction returns the object the first
\* one returned.
C9_WrittenOnce ==
  [][/\ inst # None => inst' = inst
     /\ root # Unset => root' = root
     /\ nextId' <= 2
     /\ \A t \in Threads : ret[t] # None => ret'[t] = ret[t]
     /\ \A t \in Threads : ret'[t] \in {None, inst'}]_vars

C9_Witness ==
  /\ pc[MainThread] = "pb_body"
  /\ last["resources"] # NoCall
  /\ ret[MainThread] = inst
  /\ inst # None
  /\ nextId = 2

\* C10 (threads): whenever a thread holds a resolver that PathResolver()
\* returned, the cached root is set, and no accessor read ever fails for
\* want of it.
C10_NeverRaises ==
  /\ (\E t \in Threads : ret[t] # None) => root # Unset
  /\ \A name \in {"resources", "tests", "common_framework"} :
       last[name] # AttributeError("_root")

====
